---- MODULE Spec2Model ----
(***************************************************************************)
(* Battery telemetry pipeline: the producer (bat.py) writes 16-byte        *)
(* little-endian records of four float32 fields to a TCP connection; a     *)
(* forwarder (receiver.py, or BatteryDataCollector in data_collector.py)   *)
(* reads them with recv(16), decodes them and posts them to the HTTP sink. *)
(***************************************************************************)
EXTENDS Integers, Sequences, FiniteSets, Bags, TLC

(***************************************************************************)
(* Bounds of the model.                                                    *)
(***************************************************************************)
\* connections made to port 23456
MaxConns == 2

\* messages written by the producers, on all connections together
MaxRecs == 3

(***************************************************************************)
(* Python floats.  A Python float is an IEEE-754 double; it is kept as its *)
(* class, sign, unbiased exponent and 52-bit fraction, the fraction split  *)
(* in the 23 high bits (hi) a float32 keeps and the 29 low bits (lo) a     *)
(* float32 drops.                                                          *)
(***************************************************************************)
RECURSIVE Pow2(_)
Pow2(n) == IF n <= 0 THEN 1 ELSE 2 * Pow2(n - 1)

RECURSIVE Log2(_)
Log2(a) == IF a <= 1 THEN 0 ELSE 1 + Log2(a \div 2)

Abs(n) == IF n < 0 THEN -n ELSE n

Dbl(s, e, hi, lo) == [cls |-> "normal", s |-> s, e |-> e, hi |-> hi, lo |-> lo]

Special(c, s) == [cls |-> c, s |-> s, e |-> 0, hi |-> 0, lo |-> 0]

\* float(n) for an integer n with |n| < 2^31
IntToFloat(n) ==
  IF n = 0 THEN Special("zero", 0)
  ELSE LET a == Abs(n)
           e == Log2(a)
           rem == a - Pow2(e)
       IN  IF e <= 23
           THEN Dbl(IF n < 0 THEN 1 ELSE 0, e, rem * Pow2(23 - e), 0)
           ELSE Dbl(IF n < 0 THEN 1 ELSE 0, e, rem \div Pow2(e - 23),
                    (rem % Pow2(e - 23)) * Pow2(29 - (e - 23)))

\* the four bytes of a float32 with sign s, biased exponent E, fraction M
F32Bytes(s, E, M) ==
  << M % 256, (M \div 256) % 256, (E % 2) * 128 + (M \div 65536),
     s * 128 + (E \div 2) >>

\* round-to-nearest-even of the 52-bit fraction to 23 bits: 1 = round up
RoundUp(hi, lo) ==
  IF lo > Pow2(28) \/ (lo = Pow2(28) /\ hi % 2 = 1) THEN 1 ELSE 0

\* a double below the float32 normal range becomes a denormal (or zero)
PackDenormal(x) ==
  LET shift == -126 - x.e
      full == Pow2(23) + x.hi
  IN  IF shift > 25 THEN F32Bytes(x.s, 0, 0)
      ELSE LET q == full \div Pow2(shift)
               r == full % Pow2(shift)
               half == Pow2(shift - 1)
               up == IF r > half \/ (r = half /\ x.lo > 0) THEN 1
                     ELSE IF r = half /\ q % 2 = 1 THEN 1 ELSE 0
               M == q + up
           IN  IF M = Pow2(23) THEN F32Bytes(x.s, 1, 0)
               ELSE F32Bytes(x.s, 0, M)

\* PackFloat as it would be if the fraction were cut to 23 bits instead of
\* rounded to nearest
PackFloatTruncating(x) ==
  CASE x.cls = "zero" -> F32Bytes(x.s, 0, 0)
    [] x.cls = "inf"  -> F32Bytes(x.s, 255, 0)
    [] x.cls = "nan"  -> F32Bytes(x.s, 255, Pow2(22))
    [] OTHER ->
       IF x.e < -126 THEN PackDenormal(x)
       ELSE IF x.e > 127 THEN << >> ELSE F32Bytes(x.s, x.e + 127, x.hi)

\* struct.pack('<f', x): the 4 bytes, or <<>> when struct raises
\* OverflowError ("float too large to pack with f format")
PackFloat(x) ==
  CASE x.cls = "zero" -> F32Bytes(x.s, 0, 0)
    [] x.cls = "inf"  -> F32Bytes(x.s, 255, 0)
    [] x.cls = "nan"  -> F32Bytes(x.s, 255, Pow2(22))
    [] OTHER ->
       IF x.e < -126 THEN PackDenormal(x)
       ELSE LET m == x.hi + RoundUp(x.hi, x.lo)
                e == IF m = Pow2(23) THEN x.e + 1 ELSE x.e
                M == IF m = Pow2(23) THEN 0 ELSE m
            IN  IF e > 127 THEN << >> ELSE F32Bytes(x.s, e + 127, M)

\* a float32 denormal with fraction M > 0 as a (normal) double
RECURSIVE Normalize(_, _, _)
Normalize(s, e, M) ==
  IF M >= Pow2(23) THEN Dbl(s, e, M - Pow2(23), 0)
  ELSE Normalize(s, e - 1, 2 * M)

\* struct.unpack('<f', b) for 4 bytes b: the float32 widened to a double
UnpackFloat(b) ==
  LET s == b[4] \div 128
      E == (b[4] % 128) * 2 + (b[3] \div 128)
      M == (b[3] % 128) * 65536 + b[2] * 256 + b[1]
  IN  IF E = 255 THEN (IF M = 0 THEN Special("inf", s) ELSE Special("nan", s))
      ELSE IF E = 0 THEN (IF M = 0 THEN Special("zero", s)
                          ELSE Normalize(s, -126, M))
      ELSE Dbl(s, E - 127, M, 0)

\* struct.pack('<ffff', t, v, i, c): 16 bytes, or <<>> when a field overflows
Pack(r) ==
  LET f == << PackFloat(r[1]), PackFloat(r[2]), PackFloat(r[3]), PackFloat(r[4]) >>
  IN  IF \E k \in 1..4 : f[k] = << >> THEN << >>
      ELSE f[1] \o f[2] \o f[3] \o f[4]

\* Unpack as it would be if short input were padded with zero bytes
\* instead of raising struct.error
UnpackPadded(data) ==
  LET padded == [k \in 1..16 |-> IF k <= Len(data) THEN data[k] ELSE 0]
  IN  [err |-> "none",
       values |-> [k \in 1..4 |-> UnpackFloat(SubSeq(padded, 4 * k - 3, 4 * k))]]

\* Unpack as it would be if it decoded the whole floats that are present
\* instead of raising struct.error
UnpackPrefix(data) ==
  LET n == IF Len(data) >= 16 THEN 4 ELSE Len(data) \div 4
  IN  [err |-> "none",
       values |-> [k \in 1..n |-> UnpackFloat(SubSeq(data, 4 * k - 3, 4 * k))]]

\* struct.unpack('<ffff', data): the four values; struct.error is raised
\* when len(data) is not 16
Unpack(data) ==
  IF Len(data) # 16 THEN [err |-> "struct.error", values |-> << >>]
  ELSE [err |-> "none",
        values |-> [k \in 1..4 |-> UnpackFloat(SubSeq(data, 4 * k - 3, 4 * k))]]

(***************************************************************************)
(* The producer (bat.py).  Message i of a run is the 16-byte record of row *)
(* i: time_s runs 0, 10, 20, ... (t_eval) and the other three fields cycle *)
(* through three sample readings.                                          *)
(***************************************************************************)
Readings ==
  << << Dbl(0, 8, 3250585, 322122547), IntToFloat(25), IntToFloat(25) >>,
     << Dbl(0, 5, 2752512, 0), IntToFloat(120), IntToFloat(-25) >>,
     << IntToFloat(500), IntToFloat(0), IntToFloat(60) >> >>

Telemetry(i) ==
  LET r == Readings[((i - 1) % 3) + 1]
  IN  << IntToFloat(10 * (i - 1)), r[1], r[2], r[3] >>

\* the 16 bytes of each message a producer may write
Messages == [i \in 1..(MaxRecs + 1) |-> Pack(Telemetry(i))]

\* byte at offset k (from 0) of the stream a producer writes
StreamByte(k) == Messages[(k \div 16) + 1][(k % 16) + 1]

\* the n bytes at offsets off .. off+n-1
Chunk(off, n) == [k \in 1..n |-> StreamByte(off + k - 1)]

ConnIds == 1..MaxConns

RecordLen == 16

\* the size of a partly written record and of a short read
PartialLen == RecordLen \div 2

ShortRead == RecordLen \div 2

WallClock == { IntToFloat(1700000000) }

SinkOutcomes == { "ok", "http_error", "refused", "timeout" }

AiKinds == { "performance", "prediction", "other", "invalid" }

VARIABLES
  impl,        \* which forwarder runs: "receiver" or "collector"
  running,     \* BatteryDataCollector.running
  conn,        \* connections to port 23456
  cur,         \* the connection the listener serves (0: none)
  pcL,         \* position of the accept/recv loop
  data_queue,  \* BatteryDataCollector.data_queue
  pcS,         \* position of the send_to_api thread
  ai,          \* the messages received on port 23457
  pcA,         \* position of the collect_ai_data thread
  attempts     \* the posts to /api/battery-data made so far, with their outcome

\* the wire codec taken alone: struct.pack in bat.py, struct.unpack in the
\* forwarders
VARIABLES
  record,      \* the four floats the producer packs (<< >>: none yet)
  wire,        \* the bytes on the wire
  decoded,     \* what decoding wire gave
  warning      \* the classifier's label for the decoded record

codecVars == << record, wire, decoded, warning >>

\* the API applications: main.py with its BatteryAIPredictor, and index.py
VARIABLES
  performance_history,  \* BatteryAIPredictor.performance_history
  prediction_history,   \* BatteryAIPredictor.prediction_history
  ai_enabled,           \* BatteryAIPredictor.ai_enabled
  battery_data,         \* main.py collection db.battery_data
  battery_performance,  \* main.py collection db.battery_performance
  battery_predictions,  \* main.py collection db.battery_predictions
  battery_telemetry,    \* index.py collection db.battery_telemetry
  clock,                \* datetime.now(), in days
  response,             \* the last HTTP response sent
  posts,                \* number of POSTs to /api/battery-data stored so far
  triggered,            \* the values of posts at which store_battery_data
                        \* called predict_battery_life
  counted,              \* calls of predict_battery_life made with at least
                        \* 10 entries in performance_history
  generated             \* calls of /api/battery-prediction/generate

predVars == << performance_history, prediction_history, ai_enabled >>

dbVars == << battery_data, battery_performance, battery_predictions >>

ghostVars == << posts, triggered, counted, generated >>

appVars == << predVars, dbVars, battery_telemetry, clock, response, ghostVars >>

\* the body of a request or response that carries no battery data
NoData == [timestamp |-> 0, pack_voltage |-> 0, pack_current |-> 0,
           cell_temp |-> 0, source |-> ""]

\* raised: the status of the HTTPException the handler raised in its try
\* block (0: none)
NoResponse == [endpoint |-> "none", status |-> 0, raised |-> 0, data |-> NoData]

\* the applications as started: empty histories and collections
AppIdle ==
  /\ performance_history = << >>
  /\ prediction_history = << >>
  /\ ai_enabled = FALSE
  /\ battery_data = EmptyBag
  /\ battery_performance = EmptyBag
  /\ battery_predictions = EmptyBag
  /\ battery_telemetry = << >>
  /\ clock = 0
  /\ response = NoResponse
  /\ posts = 0
  /\ triggered = << >>
  /\ counted = 0
  /\ generated = 0

(***************************************************************************)
(* routes.py: the BatteryMonitorSimulator instance "simulator".  Floats    *)
(* are counted in thousandths (355.2 is 355200), timestamps in seconds     *)
(* since the simulator was constructed.  history is a Python list of       *)
(* references: an entry names the object it refers to, 0 for the object    *)
(* self.current_data and i for the i-th object _generate_history built.    *)
(***************************************************************************)
VARIABLES
  current_data,  \* the fields of the object simulator.current_data
  history,       \* simulator.history, a list of object references
  stats,         \* simulator.stats (the counters update_data changes)
  served,        \* the last response of GET /api/battery/history
  readings       \* the values current_data had at the end of each
                 \* update_data call made so far, oldest first

simVars == << current_data, history, stats, served, readings >>

\* the reference to the object self.current_data
CurrentDataRef == 0

\* range(60) in _generate_history
GeneratedEntries == 60

\* BatteryData(timestamp=time.time(), pack_voltage=355.2, ...) in __init__
InitialData ==
  [timestamp |-> 0, pack_voltage |-> 355200, pack_current |-> 25500,
   cell_temp |-> 25000, capacity_remaining |-> 85000, cycle_count |-> 150,
   age_months |-> 6000, health_score |-> 92000]

\* BatteryStats(total_packets=1000, valid_packets=985, ...)
InitialStats == [total_packets |-> 1000, valid_packets |-> 985]

\* the simulator as constructed: _generate_history has appended 60 objects
SimConstructed ==
  /\ current_data = InitialData
  /\ history = [k \in 1..GeneratedEntries |-> k]
  /\ stats = InitialStats
  /\ served = << >>
  /\ readings = << >>

\* everything outside the forwarders
apiVars == << codecVars, appVars, simVars >>

NotDecoded == [err |-> "unset", values |-> << >>]

CodecIdle ==
  /\ record = << >>
  /\ wire = << >>
  /\ decoded = NotDecoded
  /\ warning = "unset"

vars == << impl, running, conn, cur, pcL, data_queue, pcS, ai, pcA,
           attempts >>

NoConn == [status |-> "none", sent |-> 0, pos |-> 0, peer |-> "open",
           end |-> "none"]

NoAi == [nrecv |-> 0]

\* receiver.py runs its accept loop from the start; a BatteryDataCollector
\* is constructed with running = False and its threads not yet started
Init ==
  /\ impl \in { "receiver", "collector" }
  /\ running = FALSE
  /\ conn = [c \in ConnIds |-> NoConn]
  /\ cur = 0
  /\ pcL = IF impl = "receiver" THEN "accept" ELSE "idle"
  /\ data_queue = << >>
  /\ pcS = "idle"
  /\ ai = NoAi
  /\ pcA = "idle"
  /\ attempts = << >>
  /\ CodecIdle
  /\ AppIdle
  /\ SimConstructed

Min(a, b) == IF a < b THEN a ELSE b

Avail(c) == conn[c].sent - conn[c].pos

RECURSIVE SentUpTo(_)
SentUpTo(c) == IF c = 0 THEN 0 ELSE conn[c].sent + SentUpTo(c - 1)

\* bytes written so far on all connections
TotalSent == SentUpTo(MaxConns)

\* recv(16) returns what has arrived, at most 16 bytes: the sizes tried
RecvSizes(avail) ==
  { Min(n, avail) : n \in { ShortRead, RecordLen } }

Backlog == { c \in ConnIds : conn[c].status = "backlog" }

\* listen(1): connections are accepted in the order they were made
NextInBacklog == CHOOSE c \in Backlog : \A d \in Backlog : c <= d

(***************************************************************************)
(* Producer side of a connection.                                          *)
(***************************************************************************)
Connect(c) ==
  /\ conn[c].status = "none"
  /\ \A d \in ConnIds : d < c => conn[d].status \in { "connected", "closed" }
  /\ pcL \notin { "idle", "exited" }
  /\ conn' = [conn EXCEPT ![c].status = "backlog"]
  /\ UNCHANGED << impl, running, cur, pcL, data_queue, pcS, ai, pcA,
                  attempts >>
  /\ UNCHANGED apiVars

\* s.sendall(module_message): one whole 16-byte record
Sendall(c) ==
  /\ pcL # "exited"
  /\ conn[c].status \in { "backlog", "connected" }
  /\ conn[c].peer = "open"
  /\ TotalSent + RecordLen * ai.nrecv + RecordLen <= RecordLen * MaxRecs
  /\ conn[c].sent % RecordLen = 0
  /\ conn' = [conn EXCEPT ![c].sent = @ + RecordLen]
  /\ UNCHANGED << impl, running, cur, pcL, data_queue, pcS, ai, pcA,
                  attempts >>
  /\ UNCHANGED apiVars

\* the producer ends while a record is only partly written
PartialWrite(c) ==
  /\ pcL # "exited"
  /\ conn[c].status \in { "backlog", "connected" }
  /\ conn[c].peer = "open"
  /\ TotalSent + RecordLen * ai.nrecv + RecordLen <= RecordLen * MaxRecs
  /\ conn[c].sent % RecordLen = 0
  /\ conn' = [conn EXCEPT ![c].sent = @ + PartialLen, ![c].peer = "closed"]
  /\ UNCHANGED << impl, running, cur, pcL, data_queue, pcS, ai, pcA,
                  attempts >>
  /\ UNCHANGED apiVars

\* leaving the with-block closes the socket
PeerClose(c) ==
  /\ pcL # "exited"
  /\ conn[c].status \in { "backlog", "connected" }
  /\ conn[c].peer = "open"
  /\ conn' = [conn EXCEPT ![c].peer = "closed"]
  /\ UNCHANGED << impl, running, cur, pcL, data_queue, pcS, ai, pcA,
                  attempts >>
  /\ UNCHANGED apiVars

(***************************************************************************)
(* What the two forwarders do with a connection.                           *)
(***************************************************************************)
\* leaving "with conn:" closes the accepted socket: nothing more is read
\* from it; how records why it was closed
CloseConn(c, how) ==
  [conn EXCEPT ![c] = [status |-> "closed", sent |-> @.sent, pos |-> 0,
                       peer |-> @.peer, end |-> how]]

\* one requests.post call: the payload, whether the sink took it (status
\* 200) or the delivery failed, the place of the 16 bytes the payload was
\* decoded from (connection, offset in the stream), and whether the record
\* was waiting in data_queue when stop() was called
Attempt(endpoint, payload, outcome, c, off, atStop) ==
  [endpoint |-> endpoint, payload |-> payload, delivered |-> (outcome = "ok"),
   conn |-> c, off |-> off, atStop |-> atStop]

(***************************************************************************)
(* receiver.py                                                             *)
(***************************************************************************)
\* ReceiverPayload with the indices of the values off by one
ReceiverPayloadShifted(data, now) ==
  [timestamp |-> now, pack_voltage |-> data[1], pack_current |-> data[2],
   cell_temp |-> data[3], source |-> "Module"]

\* the payload send_to_api builds from the unpacked values
ReceiverPayload(data, now) ==
  [timestamp |-> now, pack_voltage |-> data[2], pack_current |-> data[3],
   cell_temp |-> data[4], source |-> "Module"]

\* ReceiverAccept as it would be if a connection were accepted while
\* another one is still being read
ReceiverAcceptEarly ==
  /\ impl = "receiver"
  /\ pcL \in { "accept", "recv" }
  /\ Backlog # {}
  /\ cur' = NextInBacklog
  /\ conn' = [conn EXCEPT ![NextInBacklog].status = "connected"]
  /\ pcL' = "recv"
  /\ UNCHANGED << impl, running, data_queue, pcS, ai, pcA, attempts >>
  /\ UNCHANGED apiVars

\* conn, addr = s.accept()
ReceiverAccept ==
  /\ impl = "receiver"
  /\ pcL = "accept"
  /\ Backlog # {}
  /\ cur' = NextInBacklog
  /\ conn' = [conn EXCEPT ![NextInBacklog].status = "connected"]
  /\ pcL' = "recv"
  /\ UNCHANGED << impl, running, data_queue, pcS, ai, pcA, attempts >>
  /\ UNCHANGED apiVars

\* data = conn.recv(16) returned b"": break, back to accept
ReceiverRecvEof ==
  /\ impl = "receiver"
  /\ pcL = "recv"
  /\ conn[cur].peer = "closed"
  /\ Avail(cur) = 0
  /\ conn' = CloseConn(cur, "eof")
  /\ cur' = 0
  /\ pcL' = "accept"
  /\ UNCHANGED << impl, running, data_queue, pcS, ai, pcA, attempts >>
  /\ UNCHANGED apiVars

\* conn.recv(16) raised (the peer reset the connection): except Exception,
\* sleep
ReceiverRecvReset ==
  /\ impl = "receiver"
  /\ pcL = "recv"
  /\ conn[cur].peer = "open"
  /\ conn' = CloseConn(cur, "reset")
  /\ cur' = 0
  /\ pcL' = "sleep"
  /\ UNCHANGED << impl, running, data_queue, pcS, ai, pcA, attempts >>
  /\ UNCHANGED apiVars

\* ReceiverRecvData as it would be if send_to_api let the exception of a
\* failed post escape: the except clause of the accept loop ends the
\* connection
ReceiverRecvDataRaising ==
  /\ impl = "receiver"
  /\ pcL = "recv"
  /\ Avail(cur) > 0
  /\ \E n \in RecvSizes(Avail(cur)) :
       LET off == conn[cur].pos
           u == Unpack(Chunk(off, n))
       IN  IF u.err # "none"
           THEN /\ conn' = CloseConn(cur, u.err)
                /\ cur' = 0
                /\ pcL' = "sleep"
                /\ UNCHANGED attempts
           ELSE \E now \in WallClock, outcome \in SinkOutcomes :
                  /\ attempts' = Append(attempts,
                        Attempt("/api/battery-data",
                                ReceiverPayload(u.values, now), outcome,
                                cur, off, FALSE))
                  /\ IF outcome \in { "refused", "timeout" }
                     THEN /\ conn' = CloseConn(cur, "sink")
                          /\ cur' = 0
                          /\ pcL' = "sleep"
                     ELSE /\ conn' = [conn EXCEPT ![cur].pos = off + n]
                          /\ UNCHANGED << cur, pcL >>
  /\ UNCHANGED << impl, running, data_queue, pcS, ai, pcA >>
  /\ UNCHANGED apiVars

\* conn.recv(16) returned n bytes, 1 <= n <= 16: unpack them (struct.error
\* unless n = 16, which ends the connection) and send_to_api(values)
ReceiverRecvData ==
  /\ impl = "receiver"
  /\ pcL = "recv"
  /\ Avail(cur) > 0
  /\ \E n \in RecvSizes(Avail(cur)) :
       LET off == conn[cur].pos
           u == Unpack(Chunk(off, n))
       IN  IF u.err # "none"
           THEN /\ conn' = CloseConn(cur, u.err)
                /\ cur' = 0
                /\ pcL' = "sleep"
                /\ UNCHANGED attempts
           ELSE /\ conn' = [conn EXCEPT ![cur].pos = off + n]
                /\ \E now \in WallClock, outcome \in SinkOutcomes :
                     attempts' = Append(attempts,
                        Attempt("/api/battery-data",
                                ReceiverPayload(u.values, now), outcome,
                                cur, off, FALSE))
                /\ UNCHANGED << cur, pcL >>
  /\ UNCHANGED << impl, running, data_queue, pcS, ai, pcA >>
  /\ UNCHANGED apiVars

\* ReceiverSleep as it would be if the except clause were outside the
\* accept loop: the script ends
ReceiverSleepExit ==
  /\ impl = "receiver"
  /\ pcL = "sleep"
  /\ pcL' = "exited"
  /\ UNCHANGED << impl, running, conn, cur, data_queue, pcS, ai, pcA,
                  attempts >>
  /\ UNCHANGED apiVars

\* time.sleep(1) in the except clause, then the next accept
ReceiverSleep ==
  /\ impl = "receiver"
  /\ pcL = "sleep"
  /\ pcL' = "accept"
  /\ UNCHANGED << impl, running, conn, cur, data_queue, pcS, ai, pcA,
                  attempts >>
  /\ UNCHANGED apiVars

ReceiverStep ==
  \/ ReceiverAccept
  \/ ReceiverRecvEof
  \/ ReceiverRecvReset
  \/ ReceiverRecvData
  \/ ReceiverSleep

(***************************************************************************)
(* data_collector.py: BatteryDataCollector                                 *)
(***************************************************************************)
\* the dict collect_battery_data builds from the unpacked values
CollectorBatteryData(data) ==
  [timestamp |-> data[1], pack_voltage |-> data[2], pack_current |-> data[3],
   cell_temp |-> data[4], source |-> "battery_monitor"]

\* an entry of data_queue: (data_type, data), with the place of the bytes
\* it was decoded from and whether it was waiting when stop() was called
Item(type, data, c, off) ==
  [type |-> type, data |-> data, conn |-> c, off |-> off, atStop |-> FALSE]

\* queue.Queue is first-in first-out
QueuePut(q, x) == Append(q, x)

\* QueueGet of a queue.LifoQueue: the newest entry
QueueGetLifo(q) == [item |-> q[Len(q)], rest |-> SubSeq(q, 1, Len(q) - 1)]

\* QueueGet that leaves the entry in the queue
QueueGetPeek(q) == [item |-> Head(q), rest |-> q]

\* get() removes and returns the oldest entry
QueueGet(q) == [item |-> Head(q), rest |-> Tail(q)]

\* start(): running = True and the three daemon threads begin; each
\* thread is followed from its first blocking call on
Start ==
  /\ impl = "collector"
  /\ pcL = "idle" /\ pcS = "idle" /\ pcA = "idle"
  /\ running' = TRUE
  /\ pcL' = "accept"
  /\ pcA' = "accept"
  /\ pcS' = "get"
  /\ UNCHANGED << impl, conn, cur, data_queue, ai, attempts >>
  /\ UNCHANGED apiVars

\* stop(): running = False.  The entries that are in data_queue at this
\* moment are marked
Stop ==
  /\ impl = "collector"
  /\ running
  /\ running' = FALSE
  /\ data_queue' = [k \in 1..Len(data_queue) |->
                      [data_queue[k] EXCEPT !.atStop = TRUE]]
  /\ UNCHANGED << impl, conn, cur, pcL, pcS, ai, pcA, attempts >>
  /\ UNCHANGED apiVars

(***************************************************************************)
(* collect_battery_data.  A step runs from the return of one blocking call *)
(* (accept, recv, sleep) to the next blocking call, through the            *)
(* "while self.running:" tests on the way.                                 *)
(***************************************************************************)
\* client_socket, address = server_socket.accept() returned a connection
BatteryAccept ==
  /\ impl = "collector"
  /\ pcL = "accept"
  /\ Backlog # {}
  /\ IF running
     THEN /\ cur' = NextInBacklog
          /\ conn' = [conn EXCEPT ![NextInBacklog].status = "connected"]
          /\ pcL' = "recv"
     ELSE /\ cur' = 0
          /\ conn' = CloseConn(NextInBacklog, "stopped")
          /\ pcL' = "exited"
  /\ UNCHANGED << impl, running, data_queue, pcS, ai, pcA, attempts >>
  /\ UNCHANGED apiVars

\* accept() timed out after 1 second: except socket.timeout: continue
BatteryAcceptTimeout ==
  /\ impl = "collector"
  /\ pcL = "accept"
  /\ Backlog = {}
  /\ pcL' = IF running THEN "accept" ELSE "exited"
  /\ UNCHANGED << impl, running, conn, cur, data_queue, pcS, ai, pcA,
                  attempts >>
  /\ UNCHANGED apiVars

\* data = client_socket.recv(16) returned b"": break
BatteryRecvEof ==
  /\ impl = "collector"
  /\ pcL = "recv"
  /\ conn[cur].peer = "closed"
  /\ Avail(cur) = 0
  /\ conn' = CloseConn(cur, "eof")
  /\ cur' = 0
  /\ pcL' = IF running THEN "accept" ELSE "exited"
  /\ UNCHANGED << impl, running, data_queue, pcS, ai, pcA, attempts >>
  /\ UNCHANGED apiVars

\* recv raised (the peer reset the connection): except Exception: log,
\* time.sleep(1)
BatteryRecvReset ==
  /\ impl = "collector"
  /\ pcL = "recv"
  /\ conn[cur].peer = "open"
  /\ conn' = CloseConn(cur, "reset")
  /\ cur' = 0
  /\ pcL' = "sleep"
  /\ UNCHANGED << impl, running, data_queue, pcS, ai, pcA, attempts >>
  /\ UNCHANGED apiVars

\* recv returned n bytes, 1 <= n <= 16: when len(data) == 16 they are
\* unpacked and put on data_queue, otherwise nothing is done with them;
\* then the next recv on the same socket, while self.running
BatteryRecvData ==
  /\ impl = "collector"
  /\ pcL = "recv"
  /\ Avail(cur) > 0
  /\ \E n \in RecvSizes(Avail(cur)) :
       LET off == conn[cur].pos
           data == Chunk(off, n)
       IN  /\ IF Len(data) = 16
              THEN data_queue' = QueuePut(data_queue,
                      Item("battery_data",
                           CollectorBatteryData(Unpack(data).values), cur, off))
              ELSE UNCHANGED data_queue
           /\ IF running
              THEN /\ conn' = [conn EXCEPT ![cur].pos = off + n]
                   /\ UNCHANGED << cur, pcL >>
              ELSE /\ conn' = CloseConn(cur, "stopped")
                   /\ cur' = 0
                   /\ pcL' = "exited"
  /\ UNCHANGED << impl, running, pcS, ai, pcA, attempts >>
  /\ UNCHANGED apiVars

\* time.sleep(1) in the except clause is over
BatterySleep ==
  /\ impl = "collector"
  /\ pcL = "sleep"
  /\ pcL' = IF running THEN "accept" ELSE "exited"
  /\ UNCHANGED << impl, running, conn, cur, data_queue, pcS, ai, pcA,
                  attempts >>
  /\ UNCHANGED apiVars

BatteryListenerStep ==
  \/ BatteryAccept
  \/ BatteryAcceptTimeout
  \/ BatteryRecvEof
  \/ BatteryRecvReset
  \/ BatteryRecvData
  \/ BatterySleep

(***************************************************************************)
(* send_to_api (the sender thread)                                         *)
(***************************************************************************)
\* data_queue.get(timeout=1.0) returned an entry: send_battery_data posts
\* battery data to /api/battery-data once (send_performance_data and
\* send_prediction_data post the AI predictor's entries to their own
\* endpoints); every exception of the post is caught and logged there;
\* then the next get, while self.running
SenderGet ==
  /\ impl = "collector"
  /\ pcS = "get"
  /\ data_queue # << >>
  /\ LET item == QueueGet(data_queue).item
     IN  /\ data_queue' = QueueGet(data_queue).rest
         /\ \E outcome \in SinkOutcomes :
              IF item.type = "battery_data"
              THEN attempts' = Append(attempts,
                      Attempt("/api/battery-data", item.data, outcome,
                              item.conn, item.off, item.atStop))
              ELSE UNCHANGED attempts
  /\ pcS' = IF running THEN "get" ELSE "exited"
  /\ UNCHANGED << impl, running, conn, cur, pcL, ai, pcA >>
  /\ UNCHANGED apiVars

\* data_queue.get timed out: except queue.Empty: continue
SenderGetTimeout ==
  /\ impl = "collector"
  /\ pcS = "get"
  /\ data_queue = << >>
  /\ pcS' = IF running THEN "get" ELSE "exited"
  /\ UNCHANGED << impl, running, conn, cur, pcL, data_queue, ai, pcA,
                  attempts >>
  /\ UNCHANGED apiVars

SenderStep ==
  \/ SenderGet
  \/ SenderGetTimeout

(***************************************************************************)
(* collect_ai_data.  What the AI predictor does on port 23457 (connect,    *)
(* write a message, close) is chosen at the step that observes it.         *)
(***************************************************************************)
\* accept() returned the predictor's connection
AiAccept ==
  /\ impl = "collector"
  /\ pcA = "accept"
  /\ pcA' = IF running THEN "recv" ELSE "exited"
  /\ UNCHANGED << impl, running, conn, cur, pcL, data_queue, pcS, ai,
                  attempts >>
  /\ UNCHANGED apiVars

\* accept() timed out: except socket.timeout: continue
AiAcceptTimeout ==
  /\ impl = "collector"
  /\ pcA = "accept"
  /\ pcA' = IF running THEN "accept" ELSE "exited"
  /\ UNCHANGED << impl, running, conn, cur, pcL, data_queue, pcS, ai,
                  attempts >>
  /\ UNCHANGED apiVars

\* data = client_socket.recv(4096) returned b"": break
AiRecvEof ==
  /\ impl = "collector"
  /\ pcA = "recv"
  /\ pcA' = IF running THEN "accept" ELSE "exited"
  /\ UNCHANGED << impl, running, conn, cur, pcL, data_queue, pcS, ai,
                  attempts >>
  /\ UNCHANGED apiVars

\* recv returned a message: json.loads; performance data (it has
\* "capacity_remaining") and prediction data (it has "remaining_life_hours")
\* are put on data_queue, a JSONDecodeError is logged
AiRecvData ==
  /\ impl = "collector"
  /\ pcA = "recv"
  /\ TotalSent + RecordLen * ai.nrecv + RecordLen <= RecordLen * MaxRecs
  /\ \E kind \in AiKinds :
       IF kind \in { "performance", "prediction" }
       THEN data_queue' = QueuePut(data_queue,
               Item(kind, [source |-> "battery_ai_predictor"], 0, 0))
       ELSE UNCHANGED data_queue
  /\ ai' = [ai EXCEPT !.nrecv = @ + 1]
  /\ pcA' = IF running THEN "recv" ELSE "exited"
  /\ UNCHANGED << impl, running, conn, cur, pcL, pcS, attempts >>
  /\ UNCHANGED apiVars

AiListenerStep ==
  \/ AiAccept
  \/ AiAcceptTimeout
  \/ AiRecvEof
  \/ AiRecvData

ProducerStep ==
  \E c \in ConnIds :
    \/ Connect(c)
    \/ Sendall(c)
    \/ PartialWrite(c)
    \/ PeerClose(c)

Next ==
  \/ ProducerStep
  \/ ReceiverStep
  \/ Start
  \/ Stop
  \/ BatteryListenerStep
  \/ SenderStep
  \/ AiListenerStep

Spec == Init /\ [][Next]_vars

\* the system while nobody calls stop(), with every thread scheduled: a
\* listener whose blocking call can return does return
NextRunning ==
  \/ ProducerStep
  \/ ReceiverStep
  \/ Start
  \/ BatteryListenerStep
  \/ SenderStep
  \/ AiListenerStep

LiveSpec ==
  /\ Init
  /\ [][NextRunning]_vars
  /\ WF_vars(ReceiverStep)
  /\ WF_vars(BatteryListenerStep)
  /\ WF_vars(SenderStep)

(***************************************************************************)
(* The claims.                                                             *)
(***************************************************************************)
\* the posts made for records of connection c, in the order they were made
AttemptsOf(c) == SelectSeq(attempts, LAMBDA a : a.conn = c)

OffsetsOf(c) == [k \in 1..Len(AttemptsOf(c)) |-> AttemptsOf(c)[k].off]

\* the places in data_queue of the records of connection c
QueuedOf(c) == { k \in 1..Len(data_queue) : data_queue[k].conn = c }

Listening == pcL = "accept"

\* the forwarder has not ended (a collector may have been stopped)
ForwarderUp == pcL \in { "accept", "recv", "sleep" } \/ (impl = "collector" /\ ~running)

\* the values the 16 bytes at offset off decode to
DecodedAt(off) == Unpack(Chunk(off, RecordLen)).values

\* C1 (as claimed): once a producer has written three 16-byte records and
\* closed, the forwarder has ended that connection and every post made for
\* it was accepted by the sink, the connection ended by end-of-stream
\* (nothing was raised) and exactly three posts were made for it, one for
\* each record, in the order the records were written.
C1_ThreeRecordsDelivered ==
  \A c \in ConnIds :
    ( /\ conn[c].sent = 3 * RecordLen
      /\ conn[c].peer = "closed"
      /\ conn[c].status = "closed"
      /\ conn[c].end # "stopped"
      /\ impl = "collector" => running
      /\ QueuedOf(c) = {}
      /\ \A k \in 1..Len(AttemptsOf(c)) : AttemptsOf(c)[k].delivered )
    => ( /\ conn[c].end = "eof"
         /\ OffsetsOf(c) = << 0, RecordLen, 2 * RecordLen >> )

\* C2: for a connection on which exactly 8 bytes were written before the
\* peer closed, nothing is posted and nothing is queued, and once the
\* forwarder has ended the connection it is still up, ready for a further
\* connection.
C2_PartialRecordNotForwarded ==
  \A c \in ConnIds :
    (conn[c].sent = PartialLen /\ conn[c].peer = "closed")
    => ( /\ AttemptsOf(c) = << >>
         /\ QueuedOf(c) = {}
         /\ conn[c].status = "closed"
              => (conn[c].end \in { "eof", "struct.error", "stopped" }
                  /\ ForwarderUp) )

C2_Witness ==
  \E c, d \in ConnIds :
    /\ c < d
    /\ conn[c].sent = PartialLen
    /\ conn[c].status = "closed"
    /\ conn[c].end \in { "eof", "struct.error" }
    /\ conn[d].status = "connected"

\* C3 (as claimed): a connection is never read further after a read of it
\* returned fewer than 16 bytes: a connection that is still open has been
\* read in whole 16-byte chunks only.
C3_ShortChunkEndsConnection ==
  \A c \in ConnIds :
    conn[c].status = "connected" => conn[c].pos % RecordLen = 0

\* C4: a step in which a post fails changes no connection's state, leaves
\* the listener where it was (receiver.py: at the next recv of the same
\* connection; the collector's sender thread, unless stopped, at its next
\* get), and the failed record is not queued again.
C4_SinkFailureIsLocal ==
  [][ ( /\ Len(attempts') = Len(attempts) + 1
        /\ ~attempts'[Len(attempts')].delivered )
      => ( /\ \A c \in ConnIds :
                /\ conn'[c].status = conn[c].status
                /\ conn'[c].peer = conn[c].peer
                /\ conn'[c].end = conn[c].end
           /\ pcL' = pcL
           /\ cur' = cur
           /\ impl = "receiver" => pcL' = "recv"
           /\ (impl = "collector" /\ running) => pcS' = "get"
           /\ \A k \in 1..Len(data_queue') :
                << data_queue'[k].conn, data_queue'[k].off >>
                  # << attempts'[Len(attempts')].conn,
                       attempts'[Len(attempts')].off >> ) ]_vars

C4_Witness ==
  \E i, j \in 1..Len(attempts) :
    /\ i < j
    /\ ~attempts[i].delivered
    /\ attempts[j].conn = attempts[i].conn
    /\ attempts[j].off = attempts[i].off + RecordLen
    /\ conn[attempts[i].conn].status = "connected"

C6_ArrivalOrder ==
  \A i, j \in 1..Len(attempts) :
    (i < j /\ attempts[i].conn = attempts[j].conn)
      => attempts[i].off < attempts[j].off

C6_Witness ==
  /\ impl = "collector"
  /\ ai.nrecv > 0
  /\ \E k \in 1..Len(data_queue) : data_queue[k].conn = 0
  /\ \E i, j \in 1..Len(attempts) :
       i < j /\ attempts[i].conn = attempts[j].conn

\* no record is posted twice, and no record that waits in data_queue has
\* been posted
C7_NoDuplicate ==
  /\ \A i, j \in 1..Len(attempts) :
       (attempts[i].conn = attempts[j].conn /\ attempts[i].off = attempts[j].off)
         => i = j
  /\ \A i \in 1..Len(attempts), k \in 1..Len(data_queue) :
       << attempts[i].conn, attempts[i].off >>
         # << data_queue[k].conn, data_queue[k].off >>

\* C7 (as claimed): no record is posted twice, and a record that was
\* waiting in data_queue when stop() was called is never posted.
C7_AtMostOnceAsClaimed ==
  /\ C7_NoDuplicate
  /\ \A i \in 1..Len(attempts) : ~attempts[i].atStop

\* C7 (amended): no record is posted twice; of the records that were
\* waiting in data_queue when stop() was called at most one is still
\* posted (the one the sender's pending get() returns), and once the
\* sender thread has ended nothing is posted any more.
C7_AtMostOnce ==
  /\ [](C7_NoDuplicate)
  /\ [](Cardinality({ i \in 1..Len(attempts) : attempts[i].atStop }) <= 1)
  /\ [][pcS = "exited" => attempts' = attempts]_vars

C7_Witness ==
  /\ pcS = "exited"
  /\ \E i \in 1..Len(attempts) : attempts[i].atStop
  /\ \E k \in 1..Len(data_queue) : data_queue[k].type = "battery_data"
  /\ \E i \in 1..Len(attempts) : ~attempts[i].delivered

C9_OneConnectionAtATime ==
  /\ Cardinality({ c \in ConnIds : conn[c].status = "connected" }) <= 1
  /\ \A c \in ConnIds :
       conn[c].status = "connected" => (cur = c /\ pcL = "recv")

C9_Witness ==
  \E c, d \in ConnIds :
    /\ conn[c].status = "connected"
    /\ conn[c].pos > 0
    /\ conn[d].status = "backlog"
    /\ conn[d].sent > 0

\* C10 (as claimed): every record delivered to the sink was decoded from
\* 16 bytes that are one whole record of the stream: they start at a
\* multiple of 16.
C10_OnlyWholeRecords ==
  \A k \in 1..Len(attempts) :
    attempts[k].delivered => attempts[k].off % RecordLen = 0

(***************************************************************************)
(* The wire codec taken alone.  The producer packs one record; the bytes   *)
(* reach struct.unpack whole, cut short (a read that returned fewer bytes) *)
(* or followed by the first bytes of the next record.                      *)
(***************************************************************************)
\* bytes of a following record that may be handed to decode with a record
MaxExtra == 2

SampleTimes == { Special("zero", 0), IntToFloat(1700000000), IntToFloat(1700000001) }

\* 355.2, 50, 50.0001, 500, 499.99999, 42.3 and 1e39 volts
SampleVolts ==
  { Dbl(0, 8, 3250585, 322122547), IntToFloat(50), Dbl(0, 5, 4718618, 115105124),
    IntToFloat(500), Dbl(0, 8, 7995391, 360949052), Dbl(0, 5, 2700083, 107374182),
    Dbl(0, 129, 3937343, 345786909) }

\* 25, 0, -0.0, 100 amperes and infinity
SampleAmps ==
  { IntToFloat(25), Special("zero", 0), Special("zero", 1), IntToFloat(100),
    Special("inf", 0) }

\* 25, -20, 60, -20.00001 degrees, 1e-40 and nan
SampleTemps ==
  { IntToFloat(25), IntToFloat(-20), IntToFloat(60),
    Dbl(1, 4, 2097157, 130395207), Dbl(0, -133, 745777, 125261724),
    Special("nan", 0) }

SampleRecords ==
  { << t, v, i, c >> : t \in SampleTimes, v \in SampleVolts, i \in SampleAmps,
                       c \in SampleTemps }

\* the forwarders, not running
ForwarderIdle ==
  /\ impl = "receiver"
  /\ running = FALSE
  /\ conn = [c \in ConnIds |-> NoConn]
  /\ cur = 0
  /\ pcL = "accept"
  /\ data_queue = << >>
  /\ pcS = "idle"
  /\ ai = NoAi
  /\ pcA = "idle"
  /\ attempts = << >>

CodecInit ==
  /\ ForwarderIdle
  /\ record \in SampleRecords
  /\ wire = << >>
  /\ decoded = NotDecoded
  /\ warning = "unset"
  /\ AppIdle
  /\ SimConstructed

\* module_message = struct.pack('<ffff', ...): OverflowError when a value
\* is too large for a float32
Encode ==
  /\ wire = << >>
  /\ decoded.err = "unset"
  /\ wire' = Pack(record)
  /\ decoded' = IF Pack(record) = << >>
                THEN [err |-> "OverflowError", values |-> << >>]
                ELSE decoded
  /\ UNCHANGED << record, warning, vars, appVars, simVars >>

\* conn.recv(16) returned only the first n bytes of the record
ShortRecv(n) ==
  /\ Len(wire) = RecordLen
  /\ decoded.err = "unset"
  /\ wire' = SubSeq(wire, 1, n)
  /\ UNCHANGED << record, decoded, warning, vars, appVars, simVars >>

\* the record arrives with the first n bytes of the producer's next record
Coalesce(n) ==
  /\ Len(wire) = RecordLen
  /\ decoded.err = "unset"
  /\ wire' = wire \o SubSeq(wire, 1, n)
  /\ UNCHANGED << record, decoded, warning, vars, appVars, simVars >>

\* values = struct.unpack('<ffff', data)
Decode ==
  /\ wire # << >>
  /\ decoded.err = "unset"
  /\ decoded' = Unpack(wire)
  /\ UNCHANGED << record, wire, warning, vars, appVars, simVars >>

(***************************************************************************)
(* The anomaly classifier (spec section 4.2): the forwarder classifies     *)
(* each decoded record.  x < y and x <= y are Python's comparisons of      *)
(* floats: false when either is nan, and -0.0 equals 0.0.                  *)
(***************************************************************************)
Negative(x) == x.s = 1 /\ x.cls # "zero"

\* |x| < |y| for x, y not nan
MagLT(x, y) ==
  CASE x.cls = "zero" -> y.cls # "zero"
    [] x.cls = "inf"  -> FALSE
    [] y.cls = "zero" -> FALSE
    [] y.cls = "inf"  -> TRUE
    [] OTHER -> \/ x.e < y.e
                \/ (x.e = y.e /\ x.hi < y.hi)
                \/ (x.e = y.e /\ x.hi = y.hi /\ x.lo < y.lo)

FloatLT(x, y) ==
  IF x.cls = "nan" \/ y.cls = "nan" THEN FALSE
  ELSE IF Negative(x) /\ ~Negative(y) THEN TRUE
  ELSE IF ~Negative(x) /\ Negative(y) THEN FALSE
  ELSE IF Negative(x) THEN MagLT(y, x)
  ELSE MagLT(x, y)

FloatLE(x, y) ==
  IF x.cls = "nan" \/ y.cls = "nan" THEN FALSE ELSE ~FloatLT(y, x)

\* the thresholds
LowVoltage == 50

HighVoltage == 500

LowCurrent == 0

HighCurrent == 100

LowTemperature == -20

HighTemperature == 60

\* Classify with the current rules tried before the voltage rules
ClassifyCurrentFirst(v) ==
  IF FloatLE(v[3], IntToFloat(LowCurrent)) THEN "Low Current"
  ELSE IF FloatLE(IntToFloat(HighCurrent), v[3]) THEN "High Current"
  ELSE IF FloatLE(v[2], IntToFloat(LowVoltage)) THEN "Low Voltage"
  ELSE IF FloatLE(IntToFloat(HighVoltage), v[2]) THEN "High Voltage"
  ELSE IF FloatLE(v[4], IntToFloat(LowTemperature)) THEN "Low Temperature"
  ELSE IF FloatLE(IntToFloat(HighTemperature), v[4]) THEN "High Temperature"
  ELSE "none"

\* Classify with the thresholds themselves excluded
ClassifyExclusive(v) ==
  IF FloatLT(v[2], IntToFloat(LowVoltage)) THEN "Low Voltage"
  ELSE IF FloatLT(IntToFloat(HighVoltage), v[2]) THEN "High Voltage"
  ELSE IF FloatLT(v[3], IntToFloat(LowCurrent)) THEN "Low Current"
  ELSE IF FloatLT(IntToFloat(HighCurrent), v[3]) THEN "High Current"
  ELSE IF FloatLT(v[4], IntToFloat(LowTemperature)) THEN "Low Temperature"
  ELSE IF FloatLT(IntToFloat(HighTemperature), v[4]) THEN "High Temperature"
  ELSE "none"

\* the warning of the record v = (timestamp, pack_voltage, pack_current,
\* cell_temperature): the first rule that matches, "none" when none does
Classify(v) ==
  IF FloatLE(v[2], IntToFloat(LowVoltage)) THEN "Low Voltage"
  ELSE IF FloatLE(IntToFloat(HighVoltage), v[2]) THEN "High Voltage"
  ELSE IF FloatLE(v[3], IntToFloat(LowCurrent)) THEN "Low Current"
  ELSE IF FloatLE(IntToFloat(HighCurrent), v[3]) THEN "High Current"
  ELSE IF FloatLE(v[4], IntToFloat(LowTemperature)) THEN "Low Temperature"
  ELSE IF FloatLE(IntToFloat(HighTemperature), v[4]) THEN "High Temperature"
  ELSE "none"

\* the forwarder classifies the record it decoded
ClassifyDecoded ==
  /\ decoded.err = "none"
  /\ warning = "unset"
  /\ warning' = Classify(decoded.values)
  /\ UNCHANGED << record, wire, decoded, vars, appVars, simVars >>

CodecNext ==
  \/ ClassifyDecoded
  \/ Encode
  \/ \E n \in 1..(RecordLen - 1) : ShortRecv(n)
  \/ \E n \in 1..MaxExtra : Coalesce(n)
  \/ Decode

CodecSpec == CodecInit /\ [][CodecNext]_<< vars, apiVars >>

\* C11: decoding bytes whose number is not 16 raises struct.error and gives
\* no value at all; decoding 16 bytes gives four values.
C11_DecodeNeedsSixteenBytes ==
  decoded.err \in { "none", "struct.error" }
    => /\ Len(wire) # RecordLen
            => (decoded.err = "struct.error" /\ decoded.values = << >>)
       /\ Len(wire) = RecordLen
            => (decoded.err = "none" /\ Len(decoded.values) = 4)

C11_Witness ==
  /\ decoded.err = "struct.error"
  /\ Len(wire) = RecordLen - 1

\* y is the float32 nearest to the double x (x itself when x is a float32)
Nearest(x, y) ==
  IF x.cls # "normal" THEN y = x
  ELSE IF x.e < -126
  THEN LET shift == -126 - x.e
           full == Pow2(23) + x.hi
           m == IF y.cls = "zero" THEN 0
                ELSE (Pow2(23) + y.hi) \div Pow2(-126 - y.e)
           d == m * Pow2(shift) - full
       IN  /\ y.s = x.s
           /\ y.lo = 0
           /\ y.cls \in { "zero", "normal" }
           /\ IF shift > 24 THEN y.cls = "zero"
              ELSE /\ d >= 0 => 2 * d <= Pow2(shift)
                   /\ d < 0 => (2 * (-d) < Pow2(shift)
                                \/ (2 * (-d) = Pow2(shift) /\ x.lo = 0))
  ELSE /\ y.cls = "normal"
       /\ y.s = x.s
       /\ y.lo = 0
       /\ \/ (y.e = x.e /\ y.hi = x.hi /\ x.lo <= Pow2(28))
          \/ (y.e = x.e /\ y.hi = x.hi + 1 /\ x.lo >= Pow2(28))
          \/ (y.e = x.e + 1 /\ y.hi = 0 /\ x.hi = Pow2(23) - 1 /\ x.lo >= Pow2(28))

\* the 16 bytes the producer wrote have been decoded
RoundTripDone == decoded.err = "none" /\ wire = Pack(record)

\* C12 (as claimed): decoding the 16 bytes the producer wrote gives the
\* four values the producer packed.
C12_RoundTripAsClaimed ==
  RoundTripDone => \A k \in 1..4 : decoded.values[k] = record[k]

\* C12 (amended): decoding the 16 bytes the producer wrote gives, field by
\* field in the same order, the float32 nearest to the value packed (the
\* value itself when it is a float32), and packing the decoded values
\* again gives the same 16 bytes.
C12_RoundTrip ==
  RoundTripDone
    => /\ Len(decoded.values) = 4
       /\ \A k \in 1..4 : Nearest(record[k], decoded.values[k])
       /\ Pack(decoded.values) = wire

C12_Witness ==
  /\ RoundTripDone
  /\ decoded.values[1] = record[1]
  /\ decoded.values[1].cls = "normal"
  /\ decoded.values[2] # record[2]
  /\ decoded.values[4].e < -126

\* the decoded voltage, current and temperature
Volts == decoded.values[2]

Amps == decoded.values[3]

Temp == decoded.values[4]

\* 355.2 and 50.0001 as the float32 values they are decoded to
Volts355 == Dbl(0, 8, 3250586, 0)

VoltsAbove50 == Dbl(0, 5, 4718618, 0)

\* C13: a classified record has one label; it is the label of the first
\* rule, in the order Low Voltage, High Voltage, Low Current, High Current,
\* Low Temperature, High Temperature, whose condition the record meets,
\* and "none" when it meets none; low voltage with high current is "Low
\* Voltage", and V = 355.2, I = 25, T = 25 has no warning.
C13_FirstMatchWins ==
  warning # "unset"
    => LET rules == << FloatLE(Volts, IntToFloat(50)), FloatLE(IntToFloat(500), Volts),
                       FloatLE(Amps, IntToFloat(0)), FloatLE(IntToFloat(100), Amps),
                       FloatLE(Temp, IntToFloat(-20)), FloatLE(IntToFloat(60), Temp) >>
           labels == << "Low Voltage", "High Voltage", "Low Current",
                        "High Current", "Low Temperature", "High Temperature" >>
       IN  /\ warning \in { labels[k] : k \in 1..6 } \cup { "none" }
           /\ \A k \in 1..6 :
                warning = labels[k] <=> (rules[k] /\ \A j \in 1..(k - 1) : ~rules[j])
           /\ warning = "none" <=> \A k \in 1..6 : ~rules[k]
           /\ (rules[1] /\ rules[4]) => warning = "Low Voltage"
           /\ (Volts = Volts355 /\ Amps = IntToFloat(25) /\ Temp = IntToFloat(25))
                => warning = "none"

C13_Witness ==
  /\ warning = "Low Voltage"
  /\ Volts.cls = "normal"
  /\ FloatLE(IntToFloat(100), Amps)
  /\ FloatLE(IntToFloat(60), Temp)

\* C14: the thresholds are inclusive: 50 volts is "Low Voltage" and just
\* above 50 there is no voltage warning, 500 volts is "High Voltage"; with
\* the voltage in range 0 amperes is "Low Current" and 100 amperes "High
\* Current"; with voltage and current in range -20 degrees is "Low
\* Temperature" and 60 degrees "High Temperature".
C14_InclusiveThresholds ==
  warning # "unset"
    => /\ Volts = IntToFloat(50) => warning = "Low Voltage"
       /\ Volts = VoltsAbove50 => warning \notin { "Low Voltage", "High Voltage" }
       /\ Volts = IntToFloat(500) => warning = "High Voltage"
       /\ Volts \in { Volts355, VoltsAbove50 }
            => /\ Amps.cls = "zero" => warning = "Low Current"
               /\ Amps = IntToFloat(100) => warning = "High Current"
               /\ Amps = IntToFloat(25)
                    => /\ Temp = IntToFloat(-20) => warning = "Low Temperature"
                       /\ Temp = IntToFloat(60) => warning = "High Temperature"

C14_Witness ==
  /\ warning = "Low Current"
  /\ Volts = VoltsAbove50
  /\ Amps = Special("zero", 1)

(***************************************************************************)
(* main.py and its BatteryAIPredictor.  Handlers run one at a time.  An    *)
(* entry of performance_history is kept as the number of the POST that     *)
(* added it; a collection is the bag of the timestamps of its documents.   *)
(* The predictor's self.db is taken to be connected (mongo_uri is set).    *)
(***************************************************************************)
\* POSTs made beyond the cap of performance_history in the long run
MaxOver == 25

\* POSTs, and calls of /api/battery-prediction/generate, in the short runs
MaxPoints == 11

MaxGenerate == 2

HistoryCap == 1000

MinPoints == 10

MinAnalytical == 5

PredictEvery == 10

\* how a call of the Gemini API ends
AiOutcomes == { "ai_ok", "request_failed", "unparsable" }

\* add_performance_data as it would be with pop() for pop(0)
AddPerformanceDataPopNewest(h, e) ==
  LET a == Append(h, e)
  IN  IF Len(a) > HistoryCap THEN SubSeq(a, 1, Len(a) - 1) ELSE a

\* performance_history after add_performance_data(e)
AddPerformanceData(h, e) ==
  LET a == Append(h, e)
  IN  IF Len(a) > HistoryCap THEN Tail(a) ELSE a

Prediction(method) == [method |-> method, timestamp |-> clock]

\* predict_battery_life_analytical: the prediction returned and
\* prediction_history after it
PredictAnalytical(h, p) ==
  IF Len(h) < MinAnalytical
  THEN [prediction |-> Prediction("zero"), history |-> p, stored |-> FALSE]
  ELSE [prediction |-> Prediction("analytical"),
        history |-> Append(p, Prediction("analytical")), stored |-> FALSE]

\* predict_battery_life_ai: a failed request and an unparsable response
\* fall back to predict_battery_life_analytical; the prediction is then
\* appended and inserted into battery_predictions
PredictAi(h, p, outcome) ==
  LET r == IF outcome = "ai_ok"
           THEN [prediction |-> Prediction("ai"), history |-> p, stored |-> FALSE]
           ELSE PredictAnalytical(h, p)
  IN  [prediction |-> r.prediction, history |-> Append(r.history, r.prediction),
       stored |-> TRUE]

PredictBatteryLife(h, p, enabled, outcome) ==
  IF Len(h) < MinPoints
  THEN [prediction |-> Prediction("zero"), history |-> p, stored |-> FALSE]
  ELSE IF enabled THEN PredictAi(h, p, outcome)
  ELSE PredictAnalytical(h, p)

Insert(collection, t) == collection (+) SetToBag({ t })

Respond(endpoint, status) ==
  [endpoint |-> endpoint, status |-> status, raised |-> 0, data |-> NoData]

\* POST /api/battery-data with timestamp t0 (0: none given); dbok: whether
\* the database can be reached
StoreBatteryData(t0, dbok, outcome) ==
  LET t == IF t0 = 0 THEN clock ELSE t0
      h == AddPerformanceData(performance_history, posts + 1)
      r == PredictBatteryLife(h, prediction_history, ai_enabled, outcome)
  IN  IF ~dbok
      THEN /\ response' = Respond("POST /api/battery-data", 500)
           /\ UNCHANGED << predVars, dbVars, ghostVars >>
      ELSE /\ battery_data' = Insert(battery_data, t)
           /\ posts' = posts + 1
           /\ performance_history' = h
           /\ battery_performance' = Insert(battery_performance, t)
           /\ IF Len(h) % PredictEvery = 0
              THEN /\ prediction_history' = r.history
                   /\ triggered' = Append(triggered, posts + 1)
                   /\ counted' = counted + (IF Len(h) >= MinPoints THEN 1 ELSE 0)
                   /\ battery_predictions' =
                        IF r.stored
                        THEN Insert(battery_predictions, r.prediction.timestamp)
                        ELSE battery_predictions
              ELSE UNCHANGED << prediction_history, triggered, counted,
                                battery_predictions >>
           /\ response' = Respond("POST /api/battery-data", 200)
           /\ UNCHANGED << ai_enabled, generated >>

\* POST /api/battery-prediction/generate
GenerateBatteryPrediction(outcome) ==
  LET r == PredictBatteryLife(performance_history, prediction_history,
                              ai_enabled, outcome)
  IN  /\ prediction_history' = r.history
      /\ counted' = counted + (IF Len(performance_history) >= MinPoints THEN 1 ELSE 0)
      /\ generated' = generated + 1
      /\ battery_predictions' =
           IF r.stored THEN Insert(battery_predictions, r.prediction.timestamp)
           ELSE battery_predictions
      /\ response' = Respond("POST /api/battery-prediction/generate", 200)
      /\ UNCHANGED << performance_history, ai_enabled, battery_data,
                      battery_performance, posts, triggered >>

\* POST /api/ai-predictor/enable: with an api_key enable_ai, without
\* disable_ai
EnableAiPredictor(with_key) ==
  /\ ai_enabled' = with_key
  /\ response' = Respond("POST /api/ai-predictor/enable", 200)
  /\ UNCHANGED << performance_history, prediction_history, dbVars, ghostVars >>

\* the rest of the model while main.py serves a request
ElseUnchanged ==
  UNCHANGED << vars, codecVars, simVars, battery_telemetry, clock >>

\* the long run: the forwarder posts record after record
StorePost ==
  /\ posts < HistoryCap + MaxOver
  /\ \E dbok \in BOOLEAN : StoreBatteryData(clock, dbok, "ai_ok")
  /\ ElseUnchanged

StoreInit == ForwarderIdle /\ CodecIdle /\ AppIdle /\ SimConstructed

StoreNext == StorePost

StoreSpec == StoreInit /\ [][StoreNext]_<< vars, apiVars >>

\* the short runs: posts, generate calls and the AI switched on and off
PredictorPost ==
  /\ posts < MaxPoints
  /\ \E o \in AiOutcomes : StoreBatteryData(clock, TRUE, o)
  /\ ElseUnchanged

PredictorGenerate ==
  /\ generated < MaxGenerate
  /\ \E o \in AiOutcomes : GenerateBatteryPrediction(o)
  /\ ElseUnchanged

PredictorEnable ==
  /\ \E k \in BOOLEAN : EnableAiPredictor(k)
  /\ ElseUnchanged

PredictorNext ==
  \/ PredictorPost
  \/ PredictorGenerate
  \/ PredictorEnable

PredictorSpec == StoreInit /\ [][PredictorNext]_<< vars, apiVars >>

\* C15 (as claimed): store_battery_data has called predict_battery_life
\* exactly at the 10th, 20th, 30th, ... stored POST: floor(posts / 10) times.
C15_PredictionEveryTenPosts ==
  /\ Len(triggered) = posts \div PredictEvery
  /\ \A k \in 1..Len(triggered) : triggered[k] = PredictEvery * k

\* C18 (as claimed): prediction_history holds one prediction for each call
\* of predict_battery_life made with at least 10 entries, none for the
\* other calls.
C18_OnePredictionPerCall == Len(prediction_history) = counted

\* C19: performance_history holds at most 1000 entries, and they are the
\* entries added last, oldest first.
C19_LastThousandInOrder ==
  /\ Len(performance_history) = Min(posts, HistoryCap)
  /\ \A k \in 1..Len(performance_history) :
       performance_history[k] = posts - Len(performance_history) + k

C19_Witness ==
  /\ posts = HistoryCap + 2
  /\ Len(performance_history) = HistoryCap
  /\ performance_history[1] = 3
  /\ performance_history[HistoryCap] = posts

(***************************************************************************)
(* The HTTP handlers of main.py and index.py.  A handler that raises       *)
(* HTTPException inside its try block sends that status only if the block  *)
(* has "except HTTPException: raise"; otherwise "except Exception" catches  *)
(* it (HTTPException is an Exception) and a 500 is sent.                   *)
(***************************************************************************)
\* documents inserted into battery_telemetry, POSTs stored by main.py
MaxTelemetry == 2

MaxStored == 1

\* the response when HTTPException(status) is raised in the try block
RaisedInTry(endpoint, status, reraises) ==
  [endpoint |-> endpoint, status |-> IF reraises THEN status ELSE 500,
   raised |-> status, data |-> NoData]

\* GET /api/battery-data/latest, /api/battery-performance/latest and
\* /api/battery-prediction/latest of main.py
GetLatest(endpoint, collection, dbok) ==
  /\ response' =
       IF ~dbok THEN Respond(endpoint, 500)
       ELSE IF collection # EmptyBag THEN Respond(endpoint, 200)
       ELSE RaisedInTry(endpoint, 404, FALSE)
  /\ UNCHANGED << predVars, dbVars, ghostVars, battery_telemetry, clock,
                  vars, codecVars, simVars >>

GetLatestBatteryData ==
  \E dbok \in BOOLEAN :
    GetLatest("GET /api/battery-data/latest", battery_data, dbok)

GetLatestBatteryPerformance ==
  \E dbok \in BOOLEAN :
    GetLatest("GET /api/battery-performance/latest", battery_performance, dbok)

GetLatestBatteryPrediction ==
  \E dbok \in BOOLEAN :
    GetLatest("GET /api/battery-prediction/latest", battery_predictions, dbok)

\* POST /api/battery-prediction of main.py
StoreBatteryPrediction ==
  /\ BagCardinality(battery_predictions) < MaxStored
  /\ \E dbok \in BOOLEAN :
       IF dbok
       THEN /\ battery_predictions' = Insert(battery_predictions, clock)
            /\ response' = Respond("POST /api/battery-prediction", 200)
       ELSE /\ response' = Respond("POST /api/battery-prediction", 500)
            /\ UNCHANGED battery_predictions
  /\ UNCHANGED << predVars, battery_data, battery_performance, ghostVars,
                  battery_telemetry, clock, vars, codecVars, simVars >>

\* what get_latest_telemetry and get_telemetry_history find for a source
\* ("": all sources)
Telemetry4(source) ==
  SelectSeq(battery_telemetry, LAMBDA d : source = "" \/ d.source = source)

\* the GET handlers of index.py that answer 404 when there is no data: ok
\* is whether the rest of the handler (plot, AI analysis) goes through
GetTelemetry(endpoint, source, dbok, ok, reraises) ==
  /\ response' =
       IF ~dbok THEN Respond(endpoint, 500)
       ELSE IF Telemetry4(source) = << >> THEN RaisedInTry(endpoint, 404, reraises)
       ELSE IF ok THEN Respond(endpoint, 200)
       ELSE Respond(endpoint, 500)
  /\ UNCHANGED << predVars, dbVars, ghostVars, battery_telemetry, clock,
                  vars, codecVars, simVars >>

Sources == { "", "Module", "battery_monitor" }

GetCurrentBatteryData ==
  \E s \in Sources, dbok \in BOOLEAN :
    GetTelemetry("GET /api/battery/current", s, dbok, TRUE, TRUE)

GetBatteryStats ==
  \E s \in Sources, dbok \in BOOLEAN :
    GetTelemetry("GET /api/battery/stats", s, dbok, TRUE, FALSE)

GenerateBatteryVisualization ==
  \E s \in Sources, dbok, ok \in BOOLEAN :
    GetTelemetry("POST /api/battery/visualize", s, dbok, ok, FALSE)

QuickVisualization ==
  \E s \in Sources, dbok, ok \in BOOLEAN :
    GetTelemetry("GET /api/battery/visualize/quick", s, dbok, ok, FALSE)

\* requests to POST /api/battery-data of index.py, with values at and
\* beyond the limits of its validation
SampleRequests ==
  [timestamp : { 0, 5 }, pack_voltage : { -1, 0 }, pack_current : { -1001, -1000 },
   cell_temp : { -51, -50, 100, 101 }, source : { "Module", "battery_monitor" }]

\* InvalidBatteryData as it would be with the temperature limits excluded
InvalidBatteryDataStrict(d) ==
  \/ d.pack_voltage < 0
  \/ d.pack_current < -1000
  \/ d.cell_temp <= -50
  \/ d.cell_temp >= 100

\* the validation of receive_battery_data
InvalidBatteryData(d) ==
  \/ d.pack_voltage < 0
  \/ d.pack_current < -1000
  \/ d.cell_temp < -50
  \/ d.cell_temp > 100

\* telemetry_entry
TelemetryEntry(d) ==
  [timestamp |-> d.timestamp, pack_voltage |-> d.pack_voltage,
   pack_current |-> d.pack_current, cell_temp |-> d.cell_temp,
   source |-> d.source, received_at |-> clock]

\* POST /api/battery-data of index.py: HTTPException(400) is re-raised as
\* it is; an insert that fails is answered 500
ReceiveBatteryData(d, dbok) ==
  /\ Len(battery_telemetry) < MaxTelemetry
  /\ IF InvalidBatteryData(d)
     THEN /\ response' = [RaisedInTry("POST /api/battery-data (index.py)", 400, TRUE)
                            EXCEPT !.data = d]
          /\ UNCHANGED battery_telemetry
     ELSE IF ~dbok
     THEN /\ response' = [Respond("POST /api/battery-data (index.py)", 500)
                            EXCEPT !.data = d]
          /\ UNCHANGED battery_telemetry
     ELSE /\ battery_telemetry' = Append(battery_telemetry, TelemetryEntry(d))
          /\ response' = [Respond("POST /api/battery-data (index.py)", 200)
                            EXCEPT !.data = d]
  /\ UNCHANGED << predVars, dbVars, ghostVars, clock, vars, codecVars, simVars >>

ReceiveBatteryDataRequest ==
  \E d \in SampleRequests, dbok \in BOOLEAN : ReceiveBatteryData(d, dbok)

HttpPost ==
  /\ posts < MaxStored
  /\ \E dbok \in BOOLEAN : StoreBatteryData(clock, dbok, "ai_ok")
  /\ ElseUnchanged

HttpNext ==
  \/ HttpPost
  \/ StoreBatteryPrediction
  \/ GetLatestBatteryData
  \/ GetLatestBatteryPerformance
  \/ GetLatestBatteryPrediction
  \/ ReceiveBatteryDataRequest
  \/ GetCurrentBatteryData
  \/ GetBatteryStats
  \/ GenerateBatteryVisualization
  \/ QuickVisualization

HttpSpec == StoreInit /\ [][HttpNext]_<< vars, apiVars >>

\* C16 (as claimed): when a handler raised HTTPException(404) because there
\* is no data, the client is sent status 404.
C16_NotFoundIsSent == response.raised = 404 => response.status = 404

\* a request to POST /api/battery-data of index.py has just been answered
Received ==
  /\ response'.endpoint = "POST /api/battery-data (index.py)"
  /\ (response' # response \/ battery_telemetry' # battery_telemetry)

\* C17 (as claimed): an invalid request is answered 400 and inserts
\* nothing; every other request inserts exactly one document, with the
\* request's timestamp, pack_voltage, pack_current, cell_temp and source.
C17_ValidatedInsertAsClaimed ==
  [][ Received
      => LET d == response'.data
         IN  IF d.pack_voltage < 0 \/ d.pack_current < -1000
                \/ d.cell_temp < -50 \/ d.cell_temp > 100
             THEN /\ response'.status = 400
                  /\ battery_telemetry' = battery_telemetry
             ELSE /\ Len(battery_telemetry') = Len(battery_telemetry) + 1
                  /\ SubSeq(battery_telemetry', 1, Len(battery_telemetry))
                       = battery_telemetry
                  /\ LET e == battery_telemetry'[Len(battery_telemetry')]
                     IN  << e.timestamp, e.pack_voltage, e.pack_current,
                            e.cell_temp, e.source >>
                           = << d.timestamp, d.pack_voltage, d.pack_current,
                                d.cell_temp, d.source >>
    ]_<< vars, apiVars >>

\* C17 (amended): an invalid request is answered 400 and inserts nothing;
\* every other request is answered 200 and inserts exactly one document
\* with the request's values, unless the insert fails: then it is answered
\* 500 and nothing is inserted.
C17_ValidatedInsert ==
  [][ Received
      => LET d == response'.data
         IN  IF d.pack_voltage < 0 \/ d.pack_current < -1000
                \/ d.cell_temp < -50 \/ d.cell_temp > 100
             THEN /\ response'.status = 400
                  /\ battery_telemetry' = battery_telemetry
             ELSE \/ /\ response'.status = 500
                     /\ battery_telemetry' = battery_telemetry
                  \/ /\ response'.status = 200
                     /\ Len(battery_telemetry') = Len(battery_telemetry) + 1
                     /\ SubSeq(battery_telemetry', 1, Len(battery_telemetry))
                          = battery_telemetry
                     /\ LET e == battery_telemetry'[Len(battery_telemetry')]
                        IN  << e.timestamp, e.pack_voltage, e.pack_current,
                               e.cell_temp, e.source >>
                              = << d.timestamp, d.pack_voltage, d.pack_current,
                                   d.cell_temp, d.source >>
    ]_<< vars, apiVars >>

C17_Witness ==
  /\ Len(battery_telemetry) = 2
  /\ battery_telemetry[1].cell_temp = 100
  /\ battery_telemetry[2].cell_temp = -50
  /\ response.endpoint = "POST /api/battery-data (index.py)"
  /\ response.status = 200

(***************************************************************************)
(* Retention in main.py.  cleanup_old_data deletes the documents older     *)
(* than 30 days, but nothing calls it: startup_event only creates indexes  *)
(* and no other code refers to it, so it is no step of the application.    *)
(***************************************************************************)
\* days the clock runs
MaxClock == 31

RetentionDays == 30

\* delete_many({"timestamp": {"$lt": cutoff_timestamp}})
DeleteOlder(collection, cutoff) ==
  [t \in { x \in DOMAIN collection : x >= cutoff } |-> collection[t]]

\* cleanup_old_data
CleanupOldData ==
  LET cutoff_timestamp == clock - RetentionDays
  IN  /\ battery_data' = DeleteOlder(battery_data, cutoff_timestamp)
      /\ battery_performance' = DeleteOlder(battery_performance, cutoff_timestamp)
      /\ battery_predictions' = DeleteOlder(battery_predictions, cutoff_timestamp)
      /\ UNCHANGED << predVars, ghostVars, battery_telemetry, clock, response,
                      vars, codecVars, simVars >>

\* time passes, a day or 30 days at once
Tick ==
  \E d \in { 1, RetentionDays } :
    /\ clock + d <= MaxClock
    /\ clock' = clock + d
    /\ UNCHANGED << predVars, dbVars, ghostVars, battery_telemetry, response,
                    vars, codecVars, simVars >>

RetentionPost ==
  /\ posts < MaxStored
  /\ \E dbok \in BOOLEAN : StoreBatteryData(clock, dbok, "ai_ok")
  /\ ElseUnchanged

RetentionNext ==
  \/ RetentionPost
  \/ Tick
  \/ GetLatestBatteryData
  \/ GetLatestBatteryPerformance

\* the running application: time passes and requests are served
RetentionSpec ==
  /\ StoreInit
  /\ [][RetentionNext]_<< vars, apiVars >>
  /\ WF_<< vars, apiVars >>(Tick)
  /\ WF_<< vars, apiVars >>(GetLatestBatteryData)
  /\ WF_<< vars, apiVars >>(GetLatestBatteryPerformance)

\* some document of main.py's collections is more than 30 days old
HasOldData ==
  \E c \in { battery_data, battery_performance, battery_predictions } :
    \E t \in DOMAIN c : t < clock - RetentionDays

\* C20 (as claimed): whenever a document is more than 30 days old, later
\* no document is.
C20_OldDataEventuallyDeleted == HasOldData ~> ~HasOldData

(***************************************************************************)
(* Stopping a BatteryDataCollector.  stop() only sets running = False;     *)
(* each thread sees it at its next "while self.running:" test, that is     *)
(* when its blocking call returns.  accept() has the 1 second timeout of   *)
(* the listening socket, data_queue.get has timeout=1.0, the posts have    *)
(* timeout=5 and time.sleep(1) ends; the socket accept() returns is in     *)
(* blocking mode without a timeout, so its recv returns only when the      *)
(* peer has written, closed or reset.                                      *)
(***************************************************************************)
StopInit == Init /\ impl = "collector"

StopNext ==
  \/ ProducerStep
  \/ Start
  \/ Stop
  \/ BatteryListenerStep
  \/ SenderStep
  \/ AiListenerStep

\* every thread is scheduled and every blocking call that can return by
\* itself does return: accept (a connection or the timeout), recv once
\* bytes or the end of the stream have arrived, sleep and get.  What the
\* peers do (write, close, reset, connect to port 23457) is not required
\* to happen
StopSpec ==
  /\ StopInit
  /\ [][StopNext]_vars
  /\ WF_vars(BatteryAccept \/ BatteryAcceptTimeout)
  /\ WF_vars(BatteryRecvEof \/ BatteryRecvData)
  /\ WF_vars(BatterySleep)
  /\ WF_vars(SenderStep)
  /\ WF_vars(AiAcceptTimeout)

\* stop() has been called on a started collector
Stopped == impl = "collector" /\ pcL # "idle" /\ ~running

ThreadsExited == pcL = "exited" /\ pcS = "exited" /\ pcA = "exited"

\* C21 (as claimed): once stop() has been called, the battery listener,
\* the AI listener and the API sender all eventually leave their loops.
C21_StopEndsThreads == Stopped ~> ThreadsExited

(***************************************************************************)
(* routes.py: BatteryMonitorSimulator.update_data, called by the routes    *)
(* /api/battery/current and /api/battery/monitor and once a second by the  *)
(* websocket /ws/battery, and the route /api/battery/history.              *)
(***************************************************************************)
\* update_data calls made in one run
MaxCalls == 2

MinVoltage == 320000

MaxVoltage == 370000

MinCurrent == -50000

MaxCurrent == 50000

MinTemp == 15000

MaxTemp == 45000

\* capacity_remaining - 0.01
CapacityStep == 10

\* health_score - 0.001
HealthStep == 1

\* if len(self.history) > 1000
SimHistoryCap == 1000

Max(a, b) == IF a > b THEN a ELSE b

\* Clamp without the upper limit
ClampBelowOnly(lo, hi, x) == Max(lo, x)

\* max(lo, min(hi, x))
Clamp(lo, hi, x) == Max(lo, Min(hi, x))

\* random.uniform(-0.5, 0.5): the two ends and the middle
VoltageDraws == { -500, 0, 500 }

\* random.uniform(-2, 2)
CurrentDraws == { -2000, 0, 2000 }

\* random.uniform(-0.5, 0.5)
TempDraws == { -500, 0, 500 }

\* time.time() since the previous reading: the same clock value or a
\* second later
TimeSteps == { 0, 1 }

\* self.history.append(x); if len(self.history) > 1000: self.history.pop(0)
AppendCapped(h, x) ==
  LET a == Append(h, x)
  IN  IF Len(a) > SimHistoryCap THEN Tail(a) ELSE a

\* update_data: the fields of the object current_data are assigned in
\* place, then a reference to that same object is appended to history
UpdateData ==
  /\ Len(readings) < MaxCalls
  /\ \E dv \in VoltageDraws, di \in CurrentDraws, dt \in TempDraws,
        step \in TimeSteps :
       current_data' =
         [current_data EXCEPT
            !.pack_voltage = Clamp(MinVoltage, MaxVoltage, @ + dv),
            !.pack_current = Clamp(MinCurrent, MaxCurrent, @ + di),
            !.cell_temp = Clamp(MinTemp, MaxTemp, @ + dt),
            !.timestamp = @ + step,
            !.capacity_remaining = Max(0, @ - CapacityStep),
            !.health_score = Max(0, @ - HealthStep)]
  /\ history' = AppendCapped(history, CurrentDataRef)
  /\ stats' = [stats EXCEPT !.total_packets = @ + 1, !.valid_packets = @ + 1]
  /\ readings' = Append(readings, current_data')
  /\ UNCHANGED << served, vars, codecVars, appVars >>

\* the object _generate_history built in its iteration i = ref - 1; its
\* three random.uniform draws are spread over the ends and the middle of
\* their intervals
GeneratedData(ref) ==
  LET i == ref - 1
      u == (i % 3) - 1
  IN  [timestamp |-> (60 * i) - 3600,
       pack_voltage |-> 355000 + (5000 * u),
       pack_current |-> 25000 + (10000 * u),
       cell_temp |-> 25000 + (3000 * u),
       capacity_remaining |-> 85000 - (100 * i),
       cycle_count |-> 150,
       age_months |-> 6000,
       health_score |-> 92000 - (50 * i)]

\* the fields of the object a reference of history leads to, now
Deref(ref) ==
  IF ref = CurrentDataRef THEN current_data ELSE GeneratedData(ref)

\* the values of limit tried
HistoryLimits == { 1, 3 }

\* get_battery_history(limit): return simulator.history[-limit:],
\* serialised as the objects are when the response is made
GetBatteryHistory(limit) ==
  /\ LET n == Min(limit, Len(history))
     IN  served' = [k \in 1..n |-> Deref(history[Len(history) - n + k])]
  /\ UNCHANGED << current_data, history, stats, readings, vars, codecVars,
                  appVars >>

\* numbers of update_data calls made before a run starts: none, enough to
\* fill history up to one below its cap, to bring capacity_remaining to
\* one step above 0, and to bring health_score to one step above 0
SampleCalls == { 0, 939, 8499, 91999 }

\* pack_voltage, pack_current and cell_temp next to their lower and next
\* to their upper limits, where the random walk can be after 939 calls
SampleWalks ==
  { [pack_voltage |-> MinVoltage + 200, pack_current |-> MinCurrent + 1000,
     cell_temp |-> MinTemp + 200],
    [pack_voltage |-> MaxVoltage - 200, pack_current |-> MaxCurrent - 1000,
     cell_temp |-> MaxTemp - 200] }

\* simulator.history after n update_data calls
HistoryAfter(n) ==
  LET len == Min(SimHistoryCap, GeneratedEntries + n)
      popped == (GeneratedEntries + n) - len
  IN  [k \in 1..len |->
         IF k + popped <= GeneratedEntries THEN k + popped ELSE CurrentDataRef]

\* the simulator after n update_data calls, a call a second, that left
\* the random walk at w
SimulatorAfter(n, w) ==
  /\ current_data =
       [InitialData EXCEPT
          !.timestamp = n,
          !.pack_voltage = w.pack_voltage,
          !.pack_current = w.pack_current,
          !.cell_temp = w.cell_temp,
          !.capacity_remaining = Max(0, @ - (CapacityStep * n)),
          !.health_score = Max(0, @ - (HealthStep * n))]
  /\ history = HistoryAfter(n)
  /\ stats = [total_packets |-> InitialStats.total_packets + n,
              valid_packets |-> InitialStats.valid_packets + n]
  /\ served = << >>
  /\ readings = << >>

SimInit ==
  /\ ForwarderIdle
  /\ CodecIdle
  /\ AppIdle
  /\ \/ SimConstructed
     \/ \E n \in SampleCalls \ { 0 } : \E w \in SampleWalks :
          SimulatorAfter(n, w)

SimNext ==
  \/ UpdateData
  \/ \E limit \in HistoryLimits : GetBatteryHistory(limit)

SimSpec == SimInit /\ [][SimNext]_<< vars, apiVars >>

\* C22 (as claimed): the entry of history appended by an update_data call
\* still holds the reading of that call, whatever calls came after it.
C22_HistoryKeepsReadings ==
  \A k \in 1..Len(readings) :
    Deref(history[(Len(history) - Len(readings)) + k]) = readings[k]

\* C23: current_data stays within 320..370 V, -50..50 A and 15..45
\* degrees, capacity_remaining and health_score are never negative, and
\* history never holds more than 1000 entries.
C23_ReadingsInRange ==
  /\ MinVoltage <= current_data.pack_voltage
  /\ current_data.pack_voltage <= MaxVoltage
  /\ MinCurrent <= current_data.pack_current
  /\ current_data.pack_current <= MaxCurrent
  /\ MinTemp <= current_data.cell_temp
  /\ current_data.cell_temp <= MaxTemp
  /\ current_data.capacity_remaining >= 0
  /\ current_data.health_score >= 0
  /\ Len(history) <= SimHistoryCap

\* two update_data calls that hit the upper limits, the two floors and
\* the cap of history
C23_Witness ==
  /\ Len(readings) = 2
  /\ readings[1].health_score = 0
  /\ current_data.pack_voltage = MaxVoltage
  /\ current_data.pack_current = MaxCurrent
  /\ current_data.cell_temp = MaxTemp
  /\ current_data.capacity_remaining = 0
  /\ current_data.health_score = 0
  /\ Len(history) = SimHistoryCap
  /\ history[1] = CurrentDataRef

====
